---- MODULE Spec2Model ----
(***************************************************************************)
(* Model of wgpu-transparency (src/src/main.rs): the winit application     *)
(* handler App, the render state State (surface configuration, depth       *)
(* texture, pipeline) and the per-frame protocol of State::render.         *)
(* One event-loop thread dispatches window events one at a time; pc is     *)
(* the position of that thread inside the handler that is running.         *)
(***************************************************************************)
EXTENDS Integers, Sequences, FiniteSets, TLC

\* ---------------------------------------------------------------- bounds
MaxW == 2
MaxH == 1
MaxFrames == 2

\* PhysicalSize<u32> values the window system may report (0 included)
Sizes == [width : 0..MaxW, height : 0..MaxH]

\* formats[0] of the surface capabilities
Formats == {"Bgra8Unorm", "Rgba8Unorm"}

\* Option<T>
None == <<>>
Some(x) == <<x>>
Unwrap(o) == o[1]

NoEvent == [kind |-> "NoEvent", width |-> 0, height |-> 0]
CloseRequested == [kind |-> "CloseRequested", width |-> 0, height |-> 0]
RedrawRequested == [kind |-> "RedrawRequested", width |-> 0, height |-> 0]
OtherEvent == [kind |-> "Other", width |-> 0, height |-> 0]
SurfaceResized(s) == [kind |-> "SurfaceResized", width |-> s.width, height |-> s.height]

VARIABLES
  pc,              \* position of the event-loop thread
  windowSize,      \* what window.surface_size() reports when the window is created
  stateInit,       \* App.state is Some
  size,            \* State.size
  surface_format,  \* State.surface_format
  pipeline,        \* State.pipeline: [format, gen]
  data_buffer,     \* State.data_buffer: the vertex buffer (Option)
  config,          \* configuration last passed to surface.configure (Option)
  depth_texture,   \* State.depth_texture: Option of a texture id
  textures,        \* live (not yet dropped) depth textures [id, width, height]
  texture,         \* local `texture` of configure_surface (Option of id)
  caller,          \* who called configure_surface: "new" or "resize"
  event,           \* the event window_event is handling
  redrawPending,   \* window.request_redraw() was called, event not yet delivered
  exitRequested,   \* event_loop.exit() was called
  surface_texture, \* local of render: the acquired SurfaceTexture (Option)
  outstanding,     \* surface textures acquired and neither presented nor dropped
  texture_view,    \* local of render: size of the color view (Option)
  depth_view,      \* local of render: size of the depth view (Option)
  encoder,         \* local of render: "none", "recorded"
  steps,           \* calls made by render in the current handler
  draws,           \* draw calls recorded in the current handler
  frames,          \* frames presented so far, counted up to MaxFrames
  reqs,            \* request_redraw calls made in the current handler
  lastValid        \* the last size the window system reported to the program with
                   \* both dimensions > 0, or the size it reported at creation

vars == <<pc, windowSize, stateInit, size, surface_format, pipeline, data_buffer, config,
          depth_texture, textures, texture, caller, event,
          redrawPending, exitRequested, surface_texture, outstanding,
          texture_view, depth_view, encoder, steps, draws, frames, reqs, lastValid>>

stateVars == <<size, surface_format, pipeline, data_buffer, config, depth_texture, textures, texture, caller>>
frameVars == <<surface_texture, outstanding, texture_view, depth_view, encoder, steps, draws, frames>>
loopVars == <<event, redrawPending, exitRequested, reqs, lastValid>>

NoSize == [width |-> 0, height |-> 0]

Init ==
  /\ pc = "boot"
  /\ windowSize = NoSize
  /\ stateInit = FALSE
  /\ size = NoSize
  /\ surface_format = "Unset"
  /\ pipeline = None
  /\ data_buffer = None
  /\ config = None
  /\ depth_texture = None
  /\ textures = {}
  /\ texture = None
  /\ caller = "new"
  /\ event = NoEvent
  /\ redrawPending = FALSE
  /\ exitRequested = FALSE
  /\ surface_texture = None
  /\ outstanding = 0
  /\ texture_view = None
  /\ depth_view = None
  /\ encoder = "none"
  /\ steps = <<>>
  /\ draws = <<>>
  /\ frames = 0
  /\ reqs = 0
  /\ lastValid = NoSize

\* ------------------------------------------------ State::configure_surface

\* TextureFormat::add_srgb_suffix
AddSrgbSuffix(fmt) ==
  CASE fmt = "Bgra8Unorm" -> "Bgra8UnormSrgb"
    [] fmt = "Rgba8Unorm" -> "Rgba8UnormSrgb"
    [] OTHER -> fmt

\* variant: the surface format itself is given the sRGB suffix
SurfaceConfiguration_SrgbFormat(fmt, sz) ==
  [usage |-> "RENDER_ATTACHMENT",
   format |-> AddSrgbSuffix(fmt),
   view_formats |-> <<AddSrgbSuffix(fmt)>>,
   alpha_mode |-> "PreMultiplied",
   width |-> sz.width,
   height |-> sz.height,
   desired_maximum_frame_latency |-> 2,
   present_mode |-> "AutoVsync"]

\* the SurfaceConfiguration built from self.surface_format and self.size
SurfaceConfiguration(fmt, sz) ==
  [usage |-> "RENDER_ATTACHMENT",
   format |-> fmt,
   view_formats |-> <<AddSrgbSuffix(fmt)>>,
   alpha_mode |-> "PreMultiplied",
   width |-> sz.width,
   height |-> sz.height,
   desired_maximum_frame_latency |-> 2,
   present_mode |-> "AutoVsync"]

\* variant: the extent built with width and height exchanged
DepthExtent_Swapped(sz) == [width |-> sz.height, height |-> sz.width]

\* the extent of the TextureDescriptor built from self.size
DepthExtent(sz) == [width |-> sz.width, height |-> sz.height]

\* a fresh texture object: an id no live texture has
NewTextureId == CHOOSE i \in 1..(Cardinality(textures) + 1) :
                  /\ \A t \in textures : t.id # i
                  /\ \A j \in 1..(i - 1) : \E t \in textures : t.id = j

TextureOf(id) == CHOOSE t \in textures : t.id = id

\* variant: the reconfiguration also rebuilds the pipeline
ConfigureSurface_Configure_Rebuild ==
  /\ pc = "cfg_configure"
  /\ config' = Some(SurfaceConfiguration(surface_format, size))
  /\ pipeline' = Some([format |-> surface_format, gen |-> Unwrap(pipeline).gen + 1])
  /\ pc' = "cfg_create"
  /\ UNCHANGED <<windowSize, stateInit, size, surface_format, data_buffer,
                 depth_texture, textures, texture, caller>>
  /\ UNCHANGED <<frameVars, loopVars>>

\* self.surface.configure(&self.device, &SurfaceConfiguration {..})
ConfigureSurface_Configure ==
  /\ pc = "cfg_configure"
  /\ config' = Some(SurfaceConfiguration(surface_format, size))
  /\ pc' = "cfg_create"
  /\ UNCHANGED <<windowSize, stateInit, size, surface_format, pipeline, data_buffer,
                 depth_texture, textures, texture, caller>>
  /\ UNCHANGED <<frameVars, loopVars>>

\* variant: the previous depth texture is taken out and dropped before the
\* new one is created
ConfigureSurface_CreateTexture_ReleaseFirst ==
  /\ pc = "cfg_create"
  /\ LET id == NewTextureId
         ext == DepthExtent(size)
     IN /\ textures' = {[id |-> id, width |-> ext.width, height |-> ext.height]}
        /\ texture' = Some(id)
  /\ depth_texture' = None
  /\ pc' = "cfg_assign"
  /\ UNCHANGED <<windowSize, stateInit, size, surface_format, pipeline, data_buffer,
                 config, caller>>
  /\ UNCHANGED <<frameVars, loopVars>>

\* let texture = self.device.create_texture(..)
ConfigureSurface_CreateTexture ==
  /\ pc = "cfg_create"
  /\ LET id == NewTextureId
         ext == DepthExtent(size)
     IN /\ textures' = textures \cup {[id |-> id, width |-> ext.width, height |-> ext.height]}
        /\ texture' = Some(id)
  /\ pc' = "cfg_assign"
  /\ UNCHANGED <<windowSize, stateInit, size, surface_format, pipeline, data_buffer,
                 config, depth_texture, caller>>
  /\ UNCHANGED <<frameVars, loopVars>>

\* self.depth_texture = Some(texture): the previous value is dropped by the
\* assignment, after the new texture exists; then configure_surface returns
ConfigureSurface_SetDepth ==
  /\ pc = "cfg_assign"
  /\ depth_texture' = Some(Unwrap(texture))
  /\ textures' = IF depth_texture = None THEN textures
                 ELSE textures \ {TextureOf(Unwrap(depth_texture))}
  /\ texture' = None
  /\ pc' = IF caller = "new" THEN "new_return" ELSE "s_return"
  /\ UNCHANGED <<windowSize, stateInit, size, surface_format, pipeline, data_buffer, config, caller>>
  /\ UNCHANGED <<frameVars, loopVars>>

\* --------------------------------------- App::can_create_surfaces, State::new

\* event_loop.create_window(..).unwrap(): the window system picks the size
CanCreateSurfaces_CreateWindow ==
  /\ pc = "boot"
  /\ \E s \in Sizes :
       /\ windowSize' = s
       /\ lastValid' = s
  /\ pc' = "new"
  /\ UNCHANGED <<stateInit, stateVars, frameVars>>
  /\ UNCHANGED <<event, redrawPending, exitRequested, reqs>>

\* the pipeline built by create_render_pipeline: its color target format
RenderPipeline(fmt) == [format |-> fmt, gen |-> 1]

\* the buffer create_buffer_init fills with the three VertexInput values
VertexBuffer == [vertices |-> 3, usage |-> "VERTEX"]

\* variant: size starts as the default 0x0 and not as the window's size
StateNew_DefaultSize ==
  /\ pc = "new"
  /\ size' = NoSize
  /\ \E f \in Formats :
       /\ surface_format' = f
       /\ pipeline' = Some(RenderPipeline(f))
  /\ data_buffer' = Some(VertexBuffer)
  /\ depth_texture' = None
  /\ caller' = "new"
  /\ pc' = "cfg_configure"
  /\ UNCHANGED <<windowSize, stateInit, config, textures, texture>>
  /\ UNCHANGED <<frameVars, loopVars>>

\* State::new up to the construction of the struct: size is
\* window.surface_size(), swapchain_format = formats[0], the one pipeline,
\* depth_texture: None
StateNew ==
  /\ pc = "new"
  /\ size' = windowSize
  /\ \E f \in Formats :
       /\ surface_format' = f
       /\ pipeline' = Some(RenderPipeline(f))
  /\ data_buffer' = Some(VertexBuffer)
  /\ depth_texture' = None
  /\ caller' = "new"
  /\ pc' = "cfg_configure"
  /\ UNCHANGED <<windowSize, stateInit, config, textures, texture>>
  /\ UNCHANGED <<frameVars, loopVars>>

\* State::new returns; self.state = Some(state)
CanCreateSurfaces_StoreState ==
  /\ pc = "new_return"
  /\ stateInit' = TRUE
  /\ pc' = "first_redraw"
  /\ UNCHANGED <<windowSize, stateVars, frameVars, loopVars>>

\* window.request_redraw() at the end of can_create_surfaces
CanCreateSurfaces_RequestRedraw ==
  /\ pc = "first_redraw"
  /\ redrawPending' = TRUE
  /\ pc' = "idle"
  /\ UNCHANGED <<windowSize, stateInit, stateVars, frameVars>>
  /\ UNCHANGED <<event, exitRequested, reqs, lastValid>>

\* ------------------------------------------------------- App::window_event

\* The event loop calls window_event with one event at a time, in arrival
\* order, once the running handler has returned. Which event comes next is the
\* window system's choice; RedrawRequested comes only when it was requested.
\* Each call starts with self.state.as_mut().unwrap().

\* the user resized (or minimised) the window
DispatchSurfaceResized ==
  /\ pc = "idle"
  /\ \E s \in Sizes :
       /\ event' = SurfaceResized(s)
       /\ lastValid' = IF s.width > 0 /\ s.height > 0 THEN s ELSE lastValid
  /\ pc' = IF stateInit THEN "match" ELSE "panicked"
  /\ UNCHANGED <<windowSize, stateInit, stateVars, frameVars>>
  /\ UNCHANGED <<redrawPending, exitRequested, reqs>>

\* the user pressed the close button
DispatchCloseRequested ==
  /\ pc = "idle"
  /\ event' = CloseRequested
  /\ pc' = IF stateInit THEN "match" ELSE "panicked"
  /\ UNCHANGED <<windowSize, stateInit, stateVars, frameVars>>
  /\ UNCHANGED <<redrawPending, exitRequested, reqs, lastValid>>

\* any other window event (focus, pointer, ...)
DispatchOther ==
  /\ pc = "idle"
  /\ event' = OtherEvent
  /\ pc' = IF stateInit THEN "match" ELSE "panicked"
  /\ UNCHANGED <<windowSize, stateInit, stateVars, frameVars>>
  /\ UNCHANGED <<redrawPending, exitRequested, reqs, lastValid>>

\* the window system answers a pending redraw request
DispatchRedrawRequested ==
  /\ pc = "idle"
  /\ redrawPending
  /\ event' = RedrawRequested
  /\ redrawPending' = FALSE
  /\ pc' = IF stateInit THEN "match" ELSE "panicked"
  /\ UNCHANGED <<windowSize, stateInit, stateVars, frameVars>>
  /\ UNCHANGED <<exitRequested, reqs, lastValid>>

\* WindowEvent::CloseRequested => event_loop.exit()
HandleCloseRequested ==
  /\ pc = "match"
  /\ event.kind = "CloseRequested"
  /\ exitRequested' = TRUE
  /\ pc' = "idle"
  /\ event' = NoEvent
  /\ UNCHANGED <<windowSize, stateInit, stateVars, frameVars>>
  /\ UNCHANGED <<redrawPending, reqs, lastValid>>

\* variant: the catch-all arm also stops the loop
HandleOther_Exits ==
  /\ pc = "match"
  /\ event.kind = "Other"
  /\ exitRequested' = TRUE
  /\ pc' = "idle"
  /\ event' = NoEvent
  /\ UNCHANGED <<windowSize, stateInit, stateVars, frameVars>>
  /\ UNCHANGED <<redrawPending, reqs, lastValid>>

\* _ => ()
HandleOther ==
  /\ pc = "match"
  /\ event.kind = "Other"
  /\ pc' = "idle"
  /\ event' = NoEvent
  /\ UNCHANGED <<windowSize, stateInit, stateVars, frameVars>>
  /\ UNCHANGED <<redrawPending, exitRequested, reqs, lastValid>>

\* variant: only the width is tested
ResizeGuard_WidthOnly(new_size) == new_size.width > 0

\* variant: || in place of &&
ResizeGuard_Or(new_size) == new_size.width > 0 \/ new_size.height > 0

\* if new_size.width > 0 && new_size.height > 0
ResizeGuard(new_size) == new_size.width > 0 /\ new_size.height > 0

\* variant: resize stores the size and leaves the reconfiguration for later
HandleSurfaceResized_Deferred ==
  /\ pc = "match"
  /\ event.kind = "SurfaceResized"
  /\ LET new_size == [width |-> event.width, height |-> event.height]
     IN IF ResizeGuard(new_size)
        THEN size' = new_size
        ELSE size' = size
  /\ pc' = "s_return"
  /\ UNCHANGED <<windowSize, stateInit, surface_format, pipeline, data_buffer, config,
                 depth_texture, textures, texture, caller>>
  /\ UNCHANGED <<frameVars, loopVars>>

\* WindowEvent::SurfaceResized(size) => state.resize(size)
HandleSurfaceResized ==
  /\ pc = "match"
  /\ event.kind = "SurfaceResized"
  /\ LET new_size == [width |-> event.width, height |-> event.height]
     IN IF ResizeGuard(new_size)
        THEN /\ size' = new_size
             /\ caller' = "resize"
             /\ pc' = "cfg_configure"
        ELSE /\ pc' = "s_return"
             /\ UNCHANGED <<size, caller>>
  /\ UNCHANGED <<windowSize, stateInit, surface_format, pipeline, data_buffer, config,
                 depth_texture, textures, texture>>
  /\ UNCHANGED <<frameVars, loopVars>>

\* resize has returned; the SurfaceResized arm ends and window_event returns
HandleSurfaceResized_Return ==
  /\ pc = "s_return"
  /\ pc' = "idle"
  /\ event' = NoEvent
  /\ UNCHANGED <<windowSize, stateInit, stateVars, frameVars>>
  /\ UNCHANGED <<redrawPending, exitRequested, reqs, lastValid>>

\* WindowEvent::RedrawRequested => last_render_time is updated (dt is never
\* read, so the clock is left out) and the handler calls state.render()
HandleRedrawRequested ==
  /\ pc = "match"
  /\ event.kind = "RedrawRequested"
  /\ pc' = "r_acquire"
  /\ UNCHANGED <<windowSize, stateInit, stateVars, frameVars, loopVars>>

\* run_app returns once exit was requested and the running handler returned
LoopExit ==
  /\ pc = "idle"
  /\ exitRequested
  /\ pc' = "exited"
  /\ UNCHANGED <<windowSize, stateInit, stateVars, frameVars, loopVars>>

\* ------------------------------------------------------------ State::render

\* the surface texture get_current_texture hands out has the configured size
AcquiredTexture(cfg) == [width |-> cfg.width, height |-> cfg.height]

\* variant: a failed acquisition skips the frame and the handler goes on
RenderAcquire_SkipFrame ==
  /\ pc = "r_acquire"
  /\ \E ok \in BOOLEAN :
       IF ok /\ config # None
       THEN /\ surface_texture' = Some(AcquiredTexture(Unwrap(config)))
            /\ outstanding' = outstanding + 1
            /\ steps' = Append(steps, "acquire")
            /\ pc' = "r_views"
       ELSE /\ pc' = "r_request"
            /\ UNCHANGED <<surface_texture, outstanding, steps>>
  /\ UNCHANGED <<windowSize, stateInit, stateVars, loopVars>>
  /\ UNCHANGED <<texture_view, depth_view, encoder, draws, frames>>

\* self.surface.get_current_texture().expect(..): the presentation engine may
\* fail (timeout, outdated, lost), and does on an unconfigured surface
RenderAcquire ==
  /\ pc = "r_acquire"
  /\ \E ok \in BOOLEAN :
       IF ok /\ config # None
       THEN /\ surface_texture' = Some(AcquiredTexture(Unwrap(config)))
            /\ outstanding' = outstanding + 1
            /\ steps' = Append(steps, "acquire")
            /\ pc' = "r_views"
       ELSE /\ pc' = "panicked"
            /\ UNCHANGED <<surface_texture, outstanding, steps>>
  /\ UNCHANGED <<windowSize, stateInit, stateVars, loopVars>>
  /\ UNCHANGED <<texture_view, depth_view, encoder, draws, frames>>

\* variant: render makes itself a new depth texture for the frame
RenderViews_RecreateDepth ==
  /\ pc = "r_views"
  /\ depth_texture # None
  /\ LET id == NewTextureId
         sz == Unwrap(surface_texture)
     IN /\ textures' = {[id |-> id, width |-> sz.width, height |-> sz.height]}
        /\ depth_texture' = Some(id)
        /\ depth_view' = Some(sz)
  /\ texture_view' = Some(Unwrap(surface_texture))
  /\ steps' = Append(steps, "views")
  /\ pc' = "r_record"
  /\ UNCHANGED <<windowSize, stateInit, size, surface_format, pipeline, data_buffer,
                 config, texture, caller>>
  /\ UNCHANGED <<surface_texture, outstanding, encoder, draws, frames, loopVars>>

\* surface_texture.texture.create_view(..) and
\* self.depth_texture.as_ref().unwrap().create_view(..)
RenderViews ==
  /\ pc = "r_views"
  /\ IF depth_texture = None
     THEN /\ pc' = "panicked"
          /\ surface_texture' = None
          /\ outstanding' = outstanding - 1
          /\ UNCHANGED <<texture_view, depth_view, steps>>
     ELSE /\ texture_view' = Some(Unwrap(surface_texture))
          /\ depth_view' = LET t == TextureOf(Unwrap(depth_texture))
                           IN Some([width |-> t.width, height |-> t.height])
          /\ steps' = Append(steps, "views")
          /\ pc' = "r_record"
          /\ UNCHANGED <<surface_texture, outstanding>>
  /\ UNCHANGED <<windowSize, stateInit, stateVars, loopVars>>
  /\ UNCHANGED <<encoder, draws, frames>>

\* renderpass.draw(0..3, 0..1) in the one render pass of the frame
DrawCall == [vertices |-> 3, instances |-> 1]

\* create_command_encoder, begin_render_pass, set_pipeline, set_bind_group,
\* set_vertex_buffer, draw, end of the pass
RenderRecord ==
  /\ pc = "r_record"
  /\ encoder' = "recorded"
  /\ draws' = Append(draws, [call |-> DrawCall,
                             color |-> Unwrap(texture_view),
                             depth |-> Unwrap(depth_view),
                             pipeline |-> Unwrap(pipeline)])
  /\ steps' = Append(steps, "record")
  /\ pc' = "r_submit"
  /\ UNCHANGED <<windowSize, stateInit, stateVars, loopVars>>
  /\ UNCHANGED <<surface_texture, outstanding, texture_view, depth_view, frames>>

\* variant: render returns after recording, without submit and present
RenderSubmit_EarlyReturn ==
  /\ pc = "r_submit"
  /\ pc' = "r_request"
  /\ UNCHANGED <<windowSize, stateInit, stateVars, loopVars, frameVars>>

\* self.queue.submit([encoder.finish()])
RenderSubmit ==
  /\ pc = "r_submit"
  /\ encoder' = "none"
  /\ steps' = Append(steps, "submit")
  /\ pc' = "r_notify"
  /\ UNCHANGED <<windowSize, stateInit, stateVars, loopVars>>
  /\ UNCHANGED <<surface_texture, outstanding, texture_view, depth_view, draws, frames>>

\* variant: pre_present_notify is left out
RenderPrePresentNotify_Omitted ==
  /\ pc = "r_notify"
  /\ pc' = "r_present"
  /\ UNCHANGED <<windowSize, stateInit, stateVars, loopVars, frameVars>>

\* self.window.pre_present_notify()
RenderPrePresentNotify ==
  /\ pc = "r_notify"
  /\ steps' = Append(steps, "pre_present_notify")
  /\ pc' = "r_present"
  /\ UNCHANGED <<windowSize, stateInit, stateVars, loopVars>>
  /\ UNCHANGED <<surface_texture, outstanding, texture_view, depth_view, encoder, draws, frames>>

\* variant: the surface texture is leaked (never presented nor dropped)
RenderPresent_Leaked ==
  /\ pc = "r_present"
  /\ surface_texture' = None
  /\ texture_view' = None
  /\ depth_view' = None
  /\ steps' = Append(steps, "present")
  /\ frames' = IF frames < MaxFrames THEN frames + 1 ELSE frames
  /\ pc' = "r_request"
  /\ UNCHANGED <<windowSize, stateInit, stateVars, loopVars>>
  /\ UNCHANGED <<outstanding, encoder, draws>>

\* surface_texture.present() consumes the texture; render returns and its
\* views go out of scope
RenderPresent ==
  /\ pc = "r_present"
  /\ surface_texture' = None
  /\ outstanding' = outstanding - 1
  /\ texture_view' = None
  /\ depth_view' = None
  /\ steps' = Append(steps, "present")
  /\ frames' = IF frames < MaxFrames THEN frames + 1 ELSE frames
  /\ pc' = "r_request"
  /\ UNCHANGED <<windowSize, stateInit, stateVars, loopVars>>
  /\ UNCHANGED <<encoder, draws>>

\* variant: the next redraw is not requested
HandleRedrawRequested_NoRequest ==
  /\ pc = "r_request"
  /\ pc' = "r_return"
  /\ UNCHANGED <<windowSize, stateInit, stateVars, frameVars, loopVars>>

\* state.window.request_redraw() after render
HandleRedrawRequested_RequestRedraw ==
  /\ pc = "r_request"
  /\ redrawPending' = TRUE
  /\ reqs' = reqs + 1
  /\ pc' = "r_return"
  /\ UNCHANGED <<windowSize, stateInit, stateVars, frameVars>>
  /\ UNCHANGED <<event, exitRequested, lastValid>>

\* the RedrawRequested arm ends and window_event returns: the record of the
\* handler's calls ends with it
HandleRedrawRequested_Return ==
  /\ pc = "r_return"
  /\ pc' = "idle"
  /\ event' = NoEvent
  /\ steps' = <<>>
  /\ draws' = <<>>
  /\ reqs' = 0
  /\ UNCHANGED <<windowSize, stateInit, stateVars>>
  /\ UNCHANGED <<surface_texture, outstanding, texture_view, depth_view, encoder, frames>>
  /\ UNCHANGED <<redrawPending, exitRequested, lastValid>>

\* ------------------------------------------------------------ specification

Next ==
  \/ CanCreateSurfaces_CreateWindow
  \/ StateNew
  \/ ConfigureSurface_Configure
  \/ ConfigureSurface_CreateTexture
  \/ ConfigureSurface_SetDepth
  \/ CanCreateSurfaces_StoreState
  \/ CanCreateSurfaces_RequestRedraw
  \/ DispatchSurfaceResized
  \/ DispatchCloseRequested
  \/ DispatchOther
  \/ DispatchRedrawRequested
  \/ HandleCloseRequested
  \/ HandleOther
  \/ HandleSurfaceResized
  \/ HandleSurfaceResized_Return
  \/ HandleRedrawRequested
  \/ RenderAcquire
  \/ RenderViews
  \/ RenderRecord
  \/ RenderSubmit
  \/ RenderPrePresentNotify
  \/ RenderPresent
  \/ HandleRedrawRequested_RequestRedraw
  \/ HandleRedrawRequested_Return
  \/ LoopExit

Spec == Init /\ [][Next]_vars

TypeOK ==
  /\ size \in Sizes
  /\ outstanding \in 0..1
  /\ frames \in 0..MaxFrames

\* the steps of the event-loop thread, the window system left out
ProgramStep ==
  \/ CanCreateSurfaces_CreateWindow
  \/ StateNew
  \/ ConfigureSurface_Configure
  \/ ConfigureSurface_CreateTexture
  \/ ConfigureSurface_SetDepth
  \/ CanCreateSurfaces_StoreState
  \/ CanCreateSurfaces_RequestRedraw
  \/ HandleCloseRequested
  \/ HandleOther
  \/ HandleSurfaceResized
  \/ HandleSurfaceResized_Return
  \/ HandleRedrawRequested
  \/ RenderAcquire
  \/ RenderViews
  \/ RenderRecord
  \/ RenderSubmit
  \/ RenderPrePresentNotify
  \/ RenderPresent
  \/ HandleRedrawRequested_RequestRedraw
  \/ HandleRedrawRequested_Return

\* a running handler runs on, and the window system does not withhold the
\* RedrawRequested event of a pending request for ever
FairSpec ==
  /\ Init /\ [][Next]_vars
  /\ WF_vars(ProgramStep)
  /\ SF_vars(DispatchRedrawRequested)

\* ------------------------------------------------------------------ claims

Valid(s) == s.width > 0 /\ s.height > 0

SizeOf(r) == [width |-> r.width, height |-> r.height]

DepthSize == SizeOf(TextureOf(Unwrap(depth_texture)))

InRender == pc \in {"r_views", "r_record", "r_submit", "r_notify", "r_present"}

\* the depth texture was replaced at least once since State::new
Reconfigured == depth_texture # None /\ Unwrap(depth_texture) # 1

\* C1: after any sequence of SurfaceResized events has been handled, State.size
\* and the width/height last passed to surface.configure are the size of the
\* last event with both dimensions > 0, or the initial size if there was none
C1_EffectiveSizeIsLastValid ==
  (stateInit /\ (event.kind = "SurfaceResized" => pc = "s_return")) =>
     /\ size = lastValid
     /\ config # None
     /\ SizeOf(Unwrap(config)) = lastValid

C1_Witness ==
  /\ pc = "s_return"
  /\ ~Valid(SizeOf(event))
  /\ Reconfigured
  /\ frames >= 1
  /\ Valid(size)
  /\ size # windowSize
  /\ SizeOf(Unwrap(config)) = size

\* C2: whenever the surface is configured, the configured width and height
\* are both > 0, the configuration made by State::new included
C2_ConfiguredSizePositive ==
  config # None => (Unwrap(config).width > 0 /\ Unwrap(config).height > 0)

\* C3: when render acquires a frame the depth texture has the size of the
\* surface configuration, and no render pass has a color attachment and a
\* depth attachment of different sizes
C3_DepthMatchesSurface ==
  /\ (pc = "r_acquire" \/ InRender) =>
        /\ config # None
        /\ depth_texture # None
        /\ DepthSize = SizeOf(Unwrap(config))
  /\ (texture_view # None /\ depth_view # None) =>
        Unwrap(texture_view) = Unwrap(depth_view)
  /\ \A i \in 1..Len(draws) : draws[i].color = draws[i].depth

C3_Witness ==
  /\ pc = "r_submit"
  /\ frames >= 1
  /\ Reconfigured
  /\ Len(draws) = 1
  /\ Valid(draws[1].color)
  /\ draws[1].color # windowSize
  /\ draws[1].depth = draws[1].color

\* C4: at most one acquired surface texture is outstanding at any time, and
\* none is outstanding when get_current_texture is called
C4_SingleOutstandingTicket ==
  /\ outstanding <= 1
  /\ pc = "r_acquire" => (outstanding = 0 /\ surface_texture = None)

C4_Witness ==
  /\ pc = "r_views"
  /\ outstanding = 1
  /\ frames >= 1
  /\ Reconfigured
  /\ exitRequested

\* C5: the pipeline built in State::new is never rebuilt or replaced, and the
\* color format it was built for never changes: no window event changes either
C5_PipelineImmutable ==
  [][pipeline # None =>
       /\ pipeline' = pipeline
       /\ surface_format' = surface_format
       /\ Unwrap(pipeline) = [format |-> surface_format, gen |-> 1]]_vars

C5_Witness ==
  /\ pc = "exited"
  /\ frames >= 1
  /\ Reconfigured
  /\ pipeline = Some(RenderPipeline(surface_format))

FrameSteps == <<"acquire", "views", "record", "submit", "pre_present_notify", "present">>

IsPrefix(s, t) == Len(s) <= Len(t) /\ \A i \in 1..Len(s) : s[i] = t[i]

\* C6: the calls of a redraw handler are always an initial part of acquire,
\* views, record, submit, pre_present_notify, present, and all of it, with one
\* draw of 3 vertices and 1 instance, once render has returned
C6_FrameStepsInOrder ==
  /\ IsPrefix(steps, FrameSteps)
  /\ Len(draws) <= 1
  /\ pc \in {"r_request", "r_return"} =>
        /\ steps = FrameSteps
        /\ Len(draws) = 1
        /\ draws[1].call = [vertices |-> 3, instances |-> 1]

C6_Witness ==
  /\ pc = "r_request"
  /\ steps = FrameSteps
  /\ Len(draws) = 1
  /\ frames >= 2
  /\ exitRequested

\* C7: a frame acquired after a SurfaceResized event with both dimensions > 0
\* was handed to the handler is acquired and drawn at that event's size: the
\* reconfiguration has completed before get_current_texture is called
C7_ReconfigureBeforeAcquire ==
  /\ surface_texture # None => Unwrap(surface_texture) = lastValid
  /\ \A i \in 1..Len(draws) :
        /\ draws[i].color = lastValid
        /\ draws[i].depth = lastValid

C7_Witness ==
  /\ Len(draws) = 1
  /\ Reconfigured
  /\ Valid(lastValid)
  /\ lastValid # windowSize
  /\ Valid(windowSize)
  /\ draws[1].color = lastValid
  /\ draws[1].depth = lastValid
  /\ frames = 0

\* C8: exit is requested only by the handler of CloseRequested, and every
\* handled CloseRequested requests it
C8_ExitOnlyOnClose ==
  [][/\ (exitRequested' # exitRequested) => (pc = "match" /\ event.kind = "CloseRequested")
     /\ (pc = "match" /\ event.kind = "CloseRequested" /\ pc' = "idle") => exitRequested']_vars

C8_Witness ==
  /\ exitRequested
  /\ pc = "idle"
  /\ frames >= 1
  /\ Reconfigured

\* C9: when the CloseRequested handler runs and when the loop has exited, no
\* acquired surface texture is unpresented and no frame is part-way through
C9_CloseBetweenFrames ==
  ((pc = "match" /\ event.kind = "CloseRequested") \/ (exitRequested /\ pc \in {"idle", "exited"})) =>
     /\ outstanding = 0
     /\ surface_texture = None
     /\ texture_view = None
     /\ depth_view = None
     /\ encoder = "none"
     /\ steps = <<>>
     /\ draws = <<>>

C9_Witness ==
  /\ pc = "match"
  /\ event.kind = "CloseRequested"
  /\ frames >= 1
  /\ outstanding = 0

RedrawOutstanding ==
  \/ redrawPending
  \/ event.kind = "RedrawRequested"

\* C10: a redraw handler whose render completed has made exactly one
\* request_redraw call when it returns, and none before present; a redraw
\* request or event is outstanding whenever the window is open; and frames
\* keep being presented until exit is requested or acquisition fails
C10_RedrawLoop ==
  /\ []((event.kind = "RedrawRequested" /\ pc \notin {"r_return", "panicked"}) => reqs = 0)
  /\ [](pc = "r_return" => (reqs = 1 /\ steps = FrameSteps))
  /\ []((stateInit /\ pc \notin {"first_redraw", "exited", "panicked"}) => RedrawOutstanding)
  /\ []<>(exitRequested \/ pc = "panicked" \/ pc = "r_return")

C10_Witness ==
  /\ pc = "r_acquire"
  /\ frames >= 2
  /\ reqs = 0
  /\ ~exitRequested
  /\ RedrawOutstanding


\* C11: when State::new has finished, the surface is configured with the
\* window's size, a depth texture of that size exists and the one pipeline is
\* built for the chosen format; a redraw is requested only after that, so no
\* frame is acquired on an unconfigured surface and the unwrap of
\* depth_texture in render never fails
C11_InitializedBeforeFirstRedraw ==
  /\ pc \in {"new_return", "first_redraw"} =>
        /\ config # None
        /\ SizeOf(Unwrap(config)) = windowSize
        /\ depth_texture # None
        /\ DepthSize = windowSize
        /\ pipeline = Some([format |-> surface_format, gen |-> 1])
        /\ Unwrap(config).format = surface_format
  /\ (RedrawOutstanding \/ pc = "r_acquire" \/ InRender) =>
        /\ stateInit
        /\ config # None
        /\ depth_texture # None
        /\ \E t \in textures : t.id = Unwrap(depth_texture)
  /\ pc = "panicked" => (stateInit /\ steps = <<>>)

C11_Witness ==
  /\ pc = "first_redraw"
  /\ Valid(windowSize)
  /\ windowSize.width # windowSize.height
  /\ SizeOf(Unwrap(config)) = windowSize
  /\ DepthSize = windowSize
  /\ ~redrawPending


\* C12: handling a SurfaceResized event with width = 0 or height = 0 changes
\* nothing of the render state: State.size stays, surface.configure is not
\* called, the depth texture object is not replaced, and no error is raised
C12_ZeroResizeIsNoOp ==
  [][(event.kind = "SurfaceResized" /\ ~Valid(SizeOf(event))) =>
       /\ size' = size
       /\ config' = config
       /\ depth_texture' = depth_texture
       /\ textures' = textures
       /\ pipeline' = pipeline
       /\ pc' \in {"s_return", "idle"}]_vars

C12_Witness ==
  /\ pc = "s_return"
  /\ event.kind = "SurfaceResized"
  /\ event.width > 0
  /\ event.height = 0
  /\ Reconfigured
  /\ frames >= 1
  /\ DepthSize = size


\* C13: a failed acquisition in render is fatal: the step at get_current_texture
\* either acquires or halts the program there, with no retry and no
\* reconfiguration; the halted program has recorded, submitted and presented
\* nothing for that frame, has requested no redraw, and takes no further step
C13_AcquireFailureIsFatal ==
  /\ [][/\ pc # "panicked"
        /\ pc = "r_acquire" =>
             \/ pc' = "r_views" /\ surface_texture' # None
             \/ /\ pc' = "panicked"
                /\ UNCHANGED <<stateVars, frameVars, loopVars>>]_vars
  /\ [](pc = "panicked" =>
          /\ event.kind = "RedrawRequested"
          /\ steps = <<>>
          /\ draws = <<>>
          /\ encoder = "none"
          /\ surface_texture = None
          /\ outstanding = 0
          /\ reqs = 0
          /\ ~redrawPending)

C13_Witness ==
  /\ pc = "panicked"
  /\ frames >= 1
  /\ Reconfigured
  /\ config # None
  /\ ~exitRequested


Live(id) == \E t \in textures : t.id = id

\* C14: once State::new has returned, depth_texture is never None and never
\* refers to a released texture; a depth texture is released only in a step
\* in which the new texture already exists and becomes State.depth_texture
C14_DepthReleasedAfterNewExists ==
  /\ [](stateInit => (depth_texture # None /\ Live(Unwrap(depth_texture))))
  /\ [][(\E t \in textures : t \notin textures') =>
          /\ texture # None
          /\ Live(Unwrap(texture))
          /\ depth_texture' = texture
          /\ \E t \in textures' : t.id = Unwrap(texture)
          /\ (textures \ textures') = {TextureOf(Unwrap(depth_texture))}]_vars

C14_Witness ==
  /\ pc = "cfg_assign"
  /\ caller = "resize"
  /\ stateInit
  /\ Cardinality(textures) = 2
  /\ texture # None
  /\ depth_texture # texture
  /\ Live(Unwrap(depth_texture))
  /\ frames >= 1


\* C15: the color format of the surface configuration is always the format
\* the pipeline's color target was built with (State.surface_format); a
\* reconfiguration changes the configured width and height only, never the
\* format, present mode, alpha mode or maximum frame latency (2)
C15_FormatFixedAcrossResize ==
  /\ [](config # None =>
          /\ Unwrap(config).format = surface_format
          /\ pipeline # None
          /\ Unwrap(pipeline).format = Unwrap(config).format
          /\ Unwrap(config).present_mode = "AutoVsync"
          /\ Unwrap(config).alpha_mode = "PreMultiplied"
          /\ Unwrap(config).desired_maximum_frame_latency = 2)
  /\ [][(config # None /\ config' # config) =>
          /\ config' # None
          /\ [Unwrap(config') EXCEPT !.width = Unwrap(config).width,
                                     !.height = Unwrap(config).height] = Unwrap(config)
          /\ surface_format' = surface_format
          /\ pipeline' = pipeline]_vars

C15_Witness ==
  /\ pc = "s_return"
  /\ event.kind = "SurfaceResized"
  /\ Valid(SizeOf(event))
  /\ SizeOf(event) # windowSize
  /\ SizeOf(Unwrap(config)) = SizeOf(event)
  /\ Unwrap(config).format = surface_format
  /\ Unwrap(pipeline).format = surface_format
  /\ frames >= 1


RenderTargetState ==
  <<size, surface_format, config, depth_texture, textures, pipeline, data_buffer>>

\* C16: no step of a RedrawRequested handler (render included) changes
\* State.size, the surface configuration, the depth texture object, the
\* pipeline or the vertex buffer; the configuration and the depth texture
\* change only inside State::new and inside a resize with both dimensions > 0
C16_RenderLeavesTargetsAlone ==
  [][/\ event.kind = "RedrawRequested" => RenderTargetState' = RenderTargetState
     /\ (config' # config \/ depth_texture' # depth_texture) =>
          /\ pc \in {"cfg_configure", "cfg_assign"}
          /\ \/ caller = "new" /\ ~stateInit
             \/ /\ caller = "resize"
                /\ event.kind = "SurfaceResized"
                /\ Valid(SizeOf(event))]_vars

C16_Witness ==
  /\ pc = "r_return"
  /\ frames >= 2
  /\ Reconfigured
  /\ DepthSize = SizeOf(Unwrap(config))
  /\ data_buffer = Some(VertexBuffer)
  /\ pipeline = Some(RenderPipeline(surface_format))
  /\ size # windowSize

====
